---- MODULE Spec2Model ----
(***************************************************************************)
(* Gesture-to-mode state machine of the christmas-tree viewer.             *)
(*                                                                         *)
(* GestureController.tsx classifies the primary hand of each detector     *)
(* frame (detectGesture), keeps two debounce counters (openFrames,        *)
(* closedFrames) and reports mode changes to App.tsx, which owns Mode and  *)
(* can also flip it from the UI (toggleMode).  Coordinates are normalised  *)
(* image coordinates in hundredths (0..100 stands for 0.0..1.0).           *)
(*                                                                         *)
(* Six specifications:                                                     *)
(*   Spec          the gesture machine on the frames of a running detector *)
(*   SpecClassify  one frame for each landmark list of a grid of hands     *)
(*   SpecDetector  the detector itself: permission popup, effect runs and  *)
(*                 cleanups, asynchronous setup, animation frames          *)
(*   SpecCamera    the camera mapper of Experience.tsx on render ticks,    *)
(*                 angles in 1/10000 rad and distances in 1/1000 unit      *)
(*   SpecCameraLive  the same mapper on render ticks without end           *)
(*   SpecPhotos    the photo list of App.tsx and the photo overlay driven  *)
(*                 by the pinch signal                                     *)
(***************************************************************************)
EXTENDS Integers, Sequences, FiniteSets, TLC

\* ------------------------------------------------------------------------
\* Bounds of the model
\* ------------------------------------------------------------------------
MaxCount == 7
MaxRun == 7
MaxAge == 2
MaxEffects == 2
MaxTicks == 20
MaxUploads == 2

\* ------------------------------------------------------------------------
\* Program constants
\* ------------------------------------------------------------------------
CONFIDENCE_THRESHOLD == 5

TreeMode == {"FORMED", "CHAOS"}

\* The values detectGesture and predictWebcam give to setGestureStatus.
StatusInitializing == "Initializing..."
StatusPinch == "Detected: PINCH (Show Photo)"
StatusOpen == "Detected: OPEN (Unleash)"
StatusClosed == "Detected: CLOSED (Restore)"
StatusAmbiguous == "Detected: ..."
StatusNone == "No hand detected"

\* The values startWebcam gives to setGestureStatus.
StatusWaiting == "Waiting for hand..."
StatusDenied == "Permission Denied"

\* ------------------------------------------------------------------------
\* Hands: 21 landmarks, index -> [x, y] in hundredths
\* ------------------------------------------------------------------------
Pt(px, py) == [x |-> px, y |-> py]

IndexPoses == {"curled", "half", "extended"}
FingerPoses == {"curled", "extended"}
ThumbPoses == {"curled", "out", "atIndexExtended", "atIndexHalf",
               "atIndexCurled", "edgeIndexExtended"}

IndexTip(p) ==
    CASE p = "curled" -> Pt(42, 70)
      [] p = "half" -> Pt(40, 50)
      [] OTHER -> Pt(38, 30)

MiddleTip(p) == IF p = "curled" THEN Pt(50, 68) ELSE Pt(50, 28)

RingTip(p) == IF p = "curled" THEN Pt(57, 70) ELSE Pt(62, 32)

PinkyTip(p) == IF p = "curled" THEN Pt(64, 74) ELSE Pt(72, 40)

ThumbTip(p) ==
    CASE p = "curled" -> Pt(58, 80)
      [] p = "out" -> Pt(75, 65)
      [] p = "atIndexExtended" -> Pt(42, 33)
      [] p = "atIndexHalf" -> Pt(44, 53)
      [] p = "atIndexCurled" -> Pt(46, 72)
      [] OTHER -> Pt(46, 30)

Pose(t, i, m, r, k) ==
    [thumb |-> t, index |-> i, middle |-> m, ring |-> r, pinky |-> k]

Poses == [thumb : ThumbPoses, index : IndexPoses, middle : FingerPoses,
          ring : FingerPoses, pinky : FingerPoses]

\* The landmark list of a hand in pose p (wrist 0, thumb 1..4, index 5..8,
\* middle 9..12, ring 13..16, pinky 17..20).
MkHand(p) ==
    (0 :> Pt(50, 90)) @@ (1 :> Pt(57, 85)) @@ (2 :> Pt(62, 78))
    @@ (3 :> Pt(60, 79)) @@ (4 :> ThumbTip(p.thumb))
    @@ (5 :> Pt(40, 60)) @@ (6 :> Pt(40, 55)) @@ (7 :> Pt(40, 52))
    @@ (8 :> IndexTip(p.index))
    @@ (9 :> Pt(50, 58)) @@ (10 :> Pt(50, 54)) @@ (11 :> Pt(50, 51))
    @@ (12 :> MiddleTip(p.middle))
    @@ (13 :> Pt(58, 60)) @@ (14 :> Pt(58, 56)) @@ (15 :> Pt(58, 53))
    @@ (16 :> RingTip(p.ring))
    @@ (17 :> Pt(67, 62)) @@ (18 :> Pt(67, 59)) @@ (19 :> Pt(67, 57))
    @@ (20 :> PinkyTip(p.pinky))

\* Every hand of the pose grid.
Hands == {MkHand(p) : p \in Poses}

\* The hands the detector delivers in the frame stream.
FramePoses ==
    { Pose("curled", "curled", "curled", "curled", "curled"),
      Pose("curled", "extended", "curled", "curled", "curled"),
      Pose("atIndexCurled", "curled", "curled", "curled", "curled"),
      Pose("curled", "extended", "extended", "curled", "curled"),
      Pose("curled", "extended", "extended", "extended", "extended"),
      Pose("out", "extended", "extended", "extended", "extended"),
      Pose("atIndexExtended", "extended", "extended", "extended", "extended"),
      Pose("atIndexHalf", "half", "curled", "curled", "curled") }

FrameHands == {MkHand(p) : p \in FramePoses}

\* result.landmarks of one detectForVideo call: no hand or one primary hand.
Results == {<<>>} \cup {<<h>> : h \in FrameHands}

\* ------------------------------------------------------------------------
\* Geometry of detectGesture
\* ------------------------------------------------------------------------
\* Math.hypot(a.x - b.x, a.y - b.y) squared
Hypot2(a, b) == (a.x - b.x) * (a.x - b.x) + (a.y - b.y) * (a.y - b.y)

\* distTip > distBase * (num / den), both distances being >= 0
FartherThan(tip, base, wrist, num, den) ==
    den * den * Hypot2(tip, wrist) > num * num * Hypot2(base, wrist)

fingerTips == <<8, 12, 16, 20>>
fingerBases == <<5, 9, 13, 17>>

ExtendedFingers(landmarks) ==
    Cardinality({i \in 1..4 :
        FartherThan(landmarks[fingerTips[i]], landmarks[fingerBases[i]],
                    landmarks[0], 15, 10)})
    + (IF FartherThan(landmarks[4], landmarks[2], landmarks[0], 12, 10)
       THEN 1 ELSE 0)

IsIndexExtended(landmarks) ==
    FartherThan(landmarks[8], landmarks[5], landmarks[0], 11, 10)

\* pinchDistance < 0.08 && isIndexExtended
IsPinching(landmarks) ==
    /\ Hypot2(landmarks[4], landmarks[8]) < 8 * 8
    /\ IsIndexExtended(landmarks)

\* ------------------------------------------------------------------------
\* State
\* ------------------------------------------------------------------------
VARIABLES
    mode,             \* App: const [mode, setMode] = useState(FORMED)
    twoHandsDetected, \* App: const [twoHandsDetected, ...] = useState(false)
    handPosition,     \* App: const [handPosition, ...] = useState({...})
    lastModeRef,      \* GestureController: lastModeRef.current
    openFrames,       \* GestureController: openFrames.current
    closedFrames,     \* GestureController: closedFrames.current
    gestureStatus,    \* GestureController: const [gestureStatus, ...]
    syncPending,      \* the effect on [currentMode] is scheduled, not yet run
    modeCalls,        \* onModeChange calls made by the last step
    twoHandsCalls,    \* onTwoHandsDetected calls made by the last step
    handPosCalls,     \* onHandPosition calls made by the last step
    lastOp,           \* which operation the last step was
    run,              \* the current run of frames with the same status
    toggleAge,        \* frames processed since the last toggle (-1: none yet)
    probe,            \* the landmark list under classification, if any
    det,              \* the detector: popup, effect instances, camera, rAF
    cam,              \* Experience: orbit controls, frameCount, last useFrame
    photos            \* App: uploadedPhotos, closestPhoto, the share load

vars == <<mode, twoHandsDetected, handPosition, lastModeRef, openFrames,
          closedFrames, gestureStatus, syncPending, modeCalls, twoHandsCalls,
          handPosCalls, lastOp, run, toggleAge, probe, det, cam,
          photos>>

\* The refs read and written by one detector frame.
Refs == [openFrames |-> openFrames, closedFrames |-> closedFrames,
         lastModeRef |-> lastModeRef]

Max(a, b) == IF a > b THEN a ELSE b

Min(a, b) == IF a < b THEN a ELSE b

\* ------------------------------------------------------------------------
\* detectGesture: the four branches, and the no-hand branch of predictWebcam.
\* Each maps the refs to the new refs, the status set and the callbacks
\* invoked, in order.
\* ------------------------------------------------------------------------
\* PinchBranch with the pinch signal sent on the crossing frame only.
PinchBranchEdgeTriggered(s) ==
    LET o == s.openFrames + 1 IN
    [openFrames |-> o,
     closedFrames |-> 0,
     lastModeRef |-> s.lastModeRef,
     gestureStatus |-> StatusPinch,
     modeCalls |-> <<>>,
     twoHandsCalls |-> IF o = CONFIDENCE_THRESHOLD + 1
                       THEN <<TRUE>> ELSE <<>>]

\* PinchBranch that also unleashes once the pinch has been held.
PinchBranchUnleash(s) ==
    LET o == s.openFrames + 1
        fire == o > CONFIDENCE_THRESHOLD /\ s.lastModeRef # "CHAOS"
    IN
    [openFrames |-> o,
     closedFrames |-> 0,
     lastModeRef |-> IF fire THEN "CHAOS" ELSE s.lastModeRef,
     gestureStatus |-> StatusPinch,
     modeCalls |-> IF fire THEN <<"CHAOS">> ELSE <<>>,
     twoHandsCalls |-> IF o > CONFIDENCE_THRESHOLD THEN <<TRUE>> ELSE <<>>]

\* PinchBranch that leaves closedFrames as it is.
PinchBranchKeepsClosed(s) ==
    LET o == s.openFrames + 1 IN
    [openFrames |-> o,
     closedFrames |-> s.closedFrames,
     lastModeRef |-> s.lastModeRef,
     gestureStatus |-> StatusPinch,
     modeCalls |-> <<>>,
     twoHandsCalls |-> IF o > CONFIDENCE_THRESHOLD THEN <<TRUE>> ELSE <<>>]

\* PinchBranch that signals once openFrames has reached the threshold.
PinchBranchAtThreshold(s) ==
    LET o == s.openFrames + 1 IN
    [openFrames |-> o,
     closedFrames |-> 0,
     lastModeRef |-> s.lastModeRef,
     gestureStatus |-> StatusPinch,
     modeCalls |-> <<>>,
     twoHandsCalls |-> IF o >= CONFIDENCE_THRESHOLD THEN <<TRUE>> ELSE <<>>]

PinchBranch(s) ==
    LET o == s.openFrames + 1 IN
    [openFrames |-> o,
     closedFrames |-> 0,
     lastModeRef |-> s.lastModeRef,
     gestureStatus |-> StatusPinch,
     modeCalls |-> <<>>,
     twoHandsCalls |-> IF o > CONFIDENCE_THRESHOLD THEN <<TRUE>> ELSE <<>>]

\* OpenBranch that leaves closedFrames as it is.
OpenBranchKeepsClosed(s) ==
    [openFrames |-> 0,
     closedFrames |-> s.closedFrames,
     lastModeRef |-> "CHAOS",
     gestureStatus |-> StatusOpen,
     modeCalls |-> IF s.lastModeRef # "CHAOS" THEN <<"CHAOS">> ELSE <<>>,
     twoHandsCalls |-> <<FALSE>>]

OpenBranch(s) ==
    [openFrames |-> 0,
     closedFrames |-> 0,
     lastModeRef |-> "CHAOS",
     gestureStatus |-> StatusOpen,
     modeCalls |-> IF s.lastModeRef # "CHAOS" THEN <<"CHAOS">> ELSE <<>>,
     twoHandsCalls |-> <<FALSE>>]

\* ClosedBranch with the comparison >= instead of >.
ClosedBranchAtThreshold(s) ==
    LET c == s.closedFrames + 1
        fire == c >= CONFIDENCE_THRESHOLD /\ s.lastModeRef # "FORMED"
    IN
    [openFrames |-> 0,
     closedFrames |-> c,
     lastModeRef |-> IF fire THEN "FORMED" ELSE s.lastModeRef,
     gestureStatus |-> StatusClosed,
     modeCalls |-> IF fire THEN <<"FORMED">> ELSE <<>>,
     twoHandsCalls |-> <<FALSE>>]

\* ClosedBranch without the confidence check.
ClosedBranchUndebounced(s) ==
    LET c == s.closedFrames + 1
        fire == s.lastModeRef # "FORMED"
    IN
    [openFrames |-> 0,
     closedFrames |-> c,
     lastModeRef |-> IF fire THEN "FORMED" ELSE s.lastModeRef,
     gestureStatus |-> StatusClosed,
     modeCalls |-> IF fire THEN <<"FORMED">> ELSE <<>>,
     twoHandsCalls |-> <<FALSE>>]

ClosedBranch(s) ==
    LET c == s.closedFrames + 1
        fire == c > CONFIDENCE_THRESHOLD /\ s.lastModeRef # "FORMED"
    IN
    [openFrames |-> 0,
     closedFrames |-> c,
     lastModeRef |-> IF fire THEN "FORMED" ELSE s.lastModeRef,
     gestureStatus |-> StatusClosed,
     modeCalls |-> IF fire THEN <<"FORMED">> ELSE <<>>,
     twoHandsCalls |-> <<FALSE>>]

\* AmbiguousBranch that leaves the counters as they are.
AmbiguousBranchKeepsCounters(s) ==
    [openFrames |-> s.openFrames,
     closedFrames |-> s.closedFrames,
     lastModeRef |-> s.lastModeRef,
     gestureStatus |-> StatusAmbiguous,
     modeCalls |-> <<>>,
     twoHandsCalls |-> <<FALSE>>]

AmbiguousBranch(s) ==
    [openFrames |-> 0,
     closedFrames |-> 0,
     lastModeRef |-> s.lastModeRef,
     gestureStatus |-> StatusAmbiguous,
     modeCalls |-> <<>>,
     twoHandsCalls |-> <<FALSE>>]

\* NoHandBranch that resets the counters instead of decaying them.
NoHandBranchReset(s) ==
    [openFrames |-> 0,
     closedFrames |-> 0,
     lastModeRef |-> s.lastModeRef,
     gestureStatus |-> StatusNone,
     modeCalls |-> <<>>,
     twoHandsCalls |-> <<FALSE>>]

NoHandBranch(s) ==
    [openFrames |-> Max(0, s.openFrames - 1),
     closedFrames |-> Max(0, s.closedFrames - 1),
     lastModeRef |-> s.lastModeRef,
     gestureStatus |-> StatusNone,
     modeCalls |-> <<>>,
     twoHandsCalls |-> <<FALSE>>]

\* detectGesture with the open-palm test ahead of the pinch test.
detectGestureOpenFirst(landmarks, s) ==
    LET extendedFingers == ExtendedFingers(landmarks)
        isPinching == IsPinching(landmarks)
    IN
    IF extendedFingers >= 4 THEN OpenBranch(s)
    ELSE IF isPinching THEN PinchBranch(s)
    ELSE IF extendedFingers <= 1 THEN ClosedBranch(s)
    ELSE AmbiguousBranch(s)

detectGesture(landmarks, s) ==
    LET extendedFingers == ExtendedFingers(landmarks)
        isPinching == IsPinching(landmarks)
    IN
    IF isPinching THEN PinchBranch(s)
    ELSE IF extendedFingers >= 4 THEN OpenBranch(s)
    ELSE IF extendedFingers <= 1 THEN ClosedBranch(s)
    ELSE AmbiguousBranch(s)

\* ProcessFrame that sends a result without landmarks down the else branch
\* of detectGesture.
ProcessFrameNoHandAmbiguous(result, s) ==
    IF Len(result) > 0 THEN detectGesture(result[1], s)
    ELSE AmbiguousBranch(s)

\* ProcessFrame that classifies the last hand of the result.
ProcessFrameLastHand(result, s) ==
    IF Len(result) > 0 THEN detectGesture(result[Len(result)], s)
    ELSE NoHandBranch(s)

\* The body of predictWebcam for a video that has data.
ProcessFrame(result, s) ==
    IF Len(result) > 0 THEN detectGesture(result[1], s) ELSE NoHandBranch(s)

\* The palm centre of detectGesture: the mean of the wrist and the four
\* finger bases.
PalmCenterWristOnly(landmarks) == Pt(landmarks[0].x, landmarks[0].y)

PalmCenter(landmarks) ==
    Pt((landmarks[0].x + landmarks[5].x + landmarks[9].x + landmarks[13].x
        + landmarks[17].x) \div 5,
       (landmarks[0].y + landmarks[5].y + landmarks[9].y + landmarks[13].y
        + landmarks[17].y) \div 5)

\* What the hand-position consumer is given when no hand is in the frame.
NoHandPosition == [x |-> 50, y |-> 50, detected |-> FALSE]

\* The onHandPosition calls of one frame with data.
HandPositionCalls(result) ==
    IF Len(result) > 0
    THEN LET c == PalmCenter(result[1])
         IN <<[x |-> c.x, y |-> c.y, detected |-> TRUE]>>
    ELSE <<NoHandPosition>>

\* ------------------------------------------------------------------------
\* App callbacks
\* ------------------------------------------------------------------------
\* handleModeChange that drops the calls.
ModeAfterDropped(m, calls) == m

\* handleModeChange applied to the calls of one frame: the last call wins.
ModeAfter(m, calls) == IF Len(calls) > 0 THEN calls[Len(calls)] ELSE m

\* handleTwoHandsDetected applied to the calls of one frame.
TwoHandsAfter(t, calls) == IF Len(calls) > 0 THEN calls[Len(calls)] ELSE t

\* handleHandPosition applied to the calls of one frame.
HandPositionAfter(h, calls) == IF Len(calls) > 0 THEN calls[Len(calls)] ELSE h

Toggled(m) == IF m = "FORMED" THEN "CHAOS" ELSE "FORMED"

\* ------------------------------------------------------------------------
\* Runs of frames (observation only)
\* ------------------------------------------------------------------------
NoRun == [len |-> 0, prev |-> StatusInitializing, open0 |-> 0,
          closed0 |-> 0, mode0 |-> "FORMED", toggled |-> FALSE,
          events |-> 0]

\* The run after a frame with result r: it goes on while the status repeats.
RunAfter(r) ==
    IF run.len > 0 /\ r.gestureStatus = gestureStatus
    THEN [run EXCEPT !.len = @ + 1, !.events = @ + Len(r.modeCalls)]
    ELSE [len |-> 1, prev |-> gestureStatus, open0 |-> openFrames,
          closed0 |-> closedFrames, mode0 |-> mode, toggled |-> FALSE,
          events |-> Len(r.modeCalls)]

\* ------------------------------------------------------------------------
\* The detector: the effect of GestureController that sets MediaPipe and the
\* webcam up, its cleanup, and the requestAnimationFrame callbacks.
\*
\* Each run of the effect body past the popup guard is an effect instance
\* 1, 2, ...; the landmarker it creates and the MediaStream it acquires
\* carry its number.  det has the fields
\*   showPermissionPopup  const [showPermissionPopup, ...] = useState(true)
\*   effectDue            a render has changed a dependency of the effect
\*   effectCount          number of effect instances so far
\*   current              the instance whose cleanup React holds (0: none)
\*   setupPc              where setupMediaPipe/startWebcam of an instance is
\*   cleaned              the instances whose cleanup has run
\*   handLandmarkerRef    handLandmarkerRef.current (0: null)
\*   closedLandmarkers    the landmarkers close() has been called on
\*   liveStreams          the MediaStreams with tracks that are not stopped
\*   srcObject            videoRef.current.srcObject (0: none)
\*   listeners            the "loadeddata" listeners of the video, in order
\*   loadPending          a "loadeddata" event is due
\*   dispatch             listeners still to call in the event under way
\*   pending              instance -> number of its predictWebcam callbacks
\*                        requested and neither run nor cancelled
\*   animationFrameIdRef  animationFrameIdRef.current: the instance that
\*                        made the last request and whether that request
\*                        is still pending
\*   tickOf               the instance whose predictWebcam the last step ran
\*                        (0: the last step of the detector ran none)
\* ------------------------------------------------------------------------
Effects == 1..MaxEffects

NoCallback == [inst |-> 0, live |-> FALSE]

\* The detector of a freshly mounted GestureController: the effect has run
\* once and returned at the popup guard.
DetInit ==
    [showPermissionPopup |-> TRUE,
     effectDue |-> FALSE,
     effectCount |-> 0,
     current |-> 0,
     setupPc |-> [i \in Effects |-> "none"],
     cleaned |-> {},
     handLandmarkerRef |-> 0,
     closedLandmarkers |-> {},
     liveStreams |-> {},
     srcObject |-> 0,
     listeners |-> <<>>,
     loadPending |-> FALSE,
     dispatch |-> <<>>,
     pending |-> [i \in Effects |-> 0],
     animationFrameIdRef |-> NoCallback,
     tickOf |-> 0]

\* The detector once the first effect instance has set everything up and
\* its predictWebcam has made its first request.
DetRunning ==
    [DetInit EXCEPT !.showPermissionPopup = FALSE,
                    !.effectCount = 1,
                    !.current = 1,
                    !.setupPc[1] = "listening",
                    !.handLandmarkerRef = 1,
                    !.liveStreams = {1},
                    !.srcObject = 1,
                    !.listeners = <<1>>,
                    !.pending[1] = 1,
                    !.animationFrameIdRef = [inst |-> 1, live |-> TRUE],
                    !.tickOf = 1]

\* cancelAnimationFrame(animationFrameIdRef.current)
Cancelled(d) ==
    IF d.animationFrameIdRef.live
    THEN [d EXCEPT !.pending[d.animationFrameIdRef.inst] = @ - 1,
                   !.animationFrameIdRef.live = FALSE]
    ELSE d

\* if (handLandmarkerRef.current) handLandmarkerRef.current.close()
LandmarkerClosed(d) ==
    IF d.handLandmarkerRef # 0
    THEN [d EXCEPT !.closedLandmarkers = @ \cup {d.handLandmarkerRef}]
    ELSE d

\* The function the effect returns, run for the instance d.current.
Cleanup(d) ==
    [LandmarkerClosed(Cancelled(d)) EXCEPT !.cleaned = @ \cup {d.current}]

\* The browser takes one pending callback of instance i to run it; callbacks
\* run in the order of their requests, so it is the last request only if it
\* is the only one of i.
Taken(d, i) ==
    [d EXCEPT !.pending[i] = @ - 1,
              !.animationFrameIdRef.live =
                  IF d.animationFrameIdRef.inst = i /\ d.pending[i] = 1
                  THEN FALSE ELSE @]

\* animationFrameIdRef.current = requestAnimationFrame(predictWebcam)
Requested(d, i) ==
    [d EXCEPT !.pending[i] = @ + 1,
              !.animationFrameIdRef = [inst |-> i, live |-> TRUE],
              !.tickOf = i]

\* predictWebcam left before its last line.
NotRequested(d, i) == [d EXCEPT !.tickOf = i]

RECURSIVE PendingUpTo(_, _)
PendingUpTo(d, n) == IF n = 0 THEN 0 ELSE d.pending[n] + PendingUpTo(d, n - 1)

\* The number of predictWebcam callbacks pending in the browser.
PendingCallbacks(d) == PendingUpTo(d, MaxEffects)

\* ------------------------------------------------------------------------
\* The camera mapper of Experience.tsx
\*
\* Angles are integers in 1/10000 rad, distances in 1/1000 unit; a product
\* with a decimal factor is truncated toward zero.  handPosition.x and .y
\* are in hundredths, as in the gesture machine.
\* ------------------------------------------------------------------------
PI == 31416

Abs(v) == IF v < 0 THEN -v ELSE v

\* v * num / den
Mul(v, num, den) ==
    IF v >= 0 THEN (v * num) \div den ELSE -(((-v) * num) \div den)

\* The props of <OrbitControls>.
minPolarAngle == PI \div 4
maxPolarAngle == (PI * 10) \div 18
minDistance == 25000
maxDistance == 30000

\* What the orbit controls make of the values set on them: the azimuth is
\* an angle in (-PI, PI], the polar angle and the distance are kept within
\* the props' ranges.
ControlsAzimuth(v) ==
    IF v > PI THEN v - 2 * PI
    ELSE IF v <= -PI THEN v + 2 * PI
    ELSE v

ControlsPolar(v) == Max(minPolarAngle, Min(maxPolarAngle, v))

ControlsDistance(v) == Max(minDistance, Min(maxDistance, v))

targetDistance(m) == IF m = "CHAOS" THEN 35000 ELSE 25000

DistanceDeadZone == 500
AngleDeadZone == 100

\* The distance step, lines 53-62: the distances given to the camera.
newDistanceAlways(m, currentDistance) ==
    LET distanceDiff == targetDistance(m) - currentDistance
    IN  <<currentDistance + Mul(distanceDiff, 8, 100)>>

newDistance(m, currentDistance) ==
    LET distanceDiff == targetDistance(m) - currentDistance
    IN  IF Abs(distanceDiff) > DistanceDeadZone
        THEN <<currentDistance + Mul(distanceDiff, 8, 100)>>
        ELSE <<>>

\* (handPosition.x - 0.5) * Math.PI * 1.5
targetAzimuth(x) == Mul((x - 50) * PI * 15, 1, 1000)

minPolar == PI \div 4
maxPolar == (PI * 10) \div 18

targetPolarUnscaled(y) == minPolar + Mul((100 - y) * maxPolar, 1, 100)

\* minPolar + (1 - handPosition.y) * (maxPolar - minPolar)
targetPolar(y) == minPolar + Mul((100 - y) * (maxPolar - minPolar), 1, 100)

azimuthDiffRaw(target, currentAzimuth) == target - currentAzimuth

\* The difference to the target, taken the short way round.
azimuthDiff(target, currentAzimuth) ==
    LET d0 == target - currentAzimuth
        d1 == IF d0 > PI THEN d0 - PI * 2 ELSE d0
    IN  IF d1 < -PI THEN d1 + PI * 2 ELSE d1

newAzimuthUndetected(h, currentAzimuth) ==
    LET d == azimuthDiff(targetAzimuth(h.x), currentAzimuth)
    IN  IF Abs(d) > AngleDeadZone
        THEN <<currentAzimuth + Mul(d, 15, 100)>>
        ELSE <<>>

newAzimuthOvershoot(h, currentAzimuth) ==
    LET d == azimuthDiff(targetAzimuth(h.x), currentAzimuth)
    IN  IF h.detected /\ Abs(d) > AngleDeadZone
        THEN <<currentAzimuth + Mul(d, 115, 100)>>
        ELSE <<>>

\* The azimuth step, lines 72-79: the angles given to setAzimuthalAngle.
newAzimuth(h, currentAzimuth) ==
    LET d == azimuthDiff(targetAzimuth(h.x), currentAzimuth)
    IN  IF h.detected /\ Abs(d) > AngleDeadZone
        THEN <<currentAzimuth + Mul(d, 15, 100)>>
        ELSE <<>>

\* The polar step, lines 81-86: the angles given to setPolarAngle.
newPolar(h, currentPolar) ==
    LET polarDiff == targetPolar(h.y) - currentPolar
    IN  IF h.detected /\ Abs(polarDiff) > AngleDeadZone
        THEN <<currentPolar + Mul(polarDiff, 10, 100)>>
        ELSE <<>>

\* What a useFrame callback that returned early, or has not run, leaves.
NoUpdate(c, n) ==
    [c EXCEPT !.frameCount = n, !.updated = FALSE, !.targetDistance = 0,
              !.targetAzimuth = 0, !.targetPolar = 0, !.azimuthDiff = 0,
              !.newDistance = <<>>, !.newAzimuth = <<>>, !.newPolar = <<>>]

\* The camera after mounting: position [0, 4, 20] looks at the origin from
\* azimuth 0 and polar angle acos(4 / sqrt(416)), at the distance the
\* controls make of sqrt(416).
CamMounted ==
    [azimuth |-> 0, polar |-> 13734, distance |-> ControlsDistance(20396),
     frameCount |-> 0, updated |-> FALSE, targetDistance |-> 0,
     targetAzimuth |-> 0, targetPolar |-> 0, azimuthDiff |-> 0,
     newDistance |-> <<>>, newAzimuth |-> <<>>, newPolar |-> <<>>]

\* The useFrame callback on camera c with the props m (mode) and h
\* (handPosition): every other call returns at once.
UseFrame(c, m, h) ==
    LET n == c.frameCount + 1
        dw == newDistance(m, c.distance)
        aw == newAzimuth(h, c.azimuth)
        pw == newPolar(h, c.polar)
    IN  IF n % 2 # 0
        THEN NoUpdate(c, n)
        ELSE [azimuth |-> IF aw = <<>> THEN c.azimuth
                          ELSE ControlsAzimuth(aw[1]),
              polar |-> IF pw = <<>> THEN c.polar ELSE ControlsPolar(pw[1]),
              distance |-> IF dw = <<>> THEN c.distance
                           ELSE ControlsDistance(dw[1]),
              frameCount |-> n,
              updated |-> TRUE,
              targetDistance |-> targetDistance(m),
              targetAzimuth |-> IF h.detected THEN targetAzimuth(h.x) ELSE 0,
              targetPolar |-> IF h.detected THEN targetPolar(h.y) ELSE 0,
              azimuthDiff |-> IF h.detected
                              THEN azimuthDiff(targetAzimuth(h.x), c.azimuth)
                              ELSE 0,
              newDistance |-> dw,
              newAzimuth |-> aw,
              newPolar |-> pw]

\* ------------------------------------------------------------------------
\* The photo list of App.tsx and the closest photo of Polaroids
\*
\* A photo is the number of the upload it came with; the photos of a
\* shared link are SharedPhoto.
\* ------------------------------------------------------------------------
PhotoLimit == 20
SharedPhoto == 0
NullPhoto == -1

\* n photos p
Batch(p, n) == [i \in 1..n |-> p]

\* s.slice(0, n)
Slice(s, n) == SubSeq(s, 1, Min(n, Len(s)))

\* setUploadedPhotos((prev) => [...prev, ...photos].slice(0, 20))
handlePhotosUpload(prev, new) == Slice(prev \o new, PhotoLimit)

\* The indices closestIndex can have after the loop over the group's
\* children: 0, or the index of a child that is a photo.
ClosestIndices(photoData) ==
    IF Len(photoData) = 0 THEN {0} ELSE 0..(Len(photoData) - 1)

ClosestPhotoCallsNoClear(pinch, uploadedPhotos, closestIndex) ==
    IF pinch /\ Len(uploadedPhotos) > 0
    THEN <<uploadedPhotos[closestIndex + 1]>>
    ELSE <<>>

\* The onClosestPhotoChange calls of one useFrame callback of Polaroids.
ClosestPhotoCalls(pinch, uploadedPhotos, closestIndex) ==
    IF pinch /\ Len(uploadedPhotos) > 0
    THEN <<uploadedPhotos[closestIndex + 1]>>
    ELSE <<NullPhoto>>

\* handleClosestPhotoChange applied to the calls of one tick.
ClosestPhotoAfter(c, calls) == IF Len(calls) > 0 THEN calls[Len(calls)] ELSE c

\* App after mounting, before the effect that loads a shared link.
PhotosMounted ==
    [uploadedPhotos |-> <<>>, closestPhoto |-> NullPhoto, share |-> "none",
     uploads |-> 0, closestCalls |-> <<>>]

\* ------------------------------------------------------------------------
\* Initial state and actions
\*
\* Spec is the gesture machine on the frames of a running detector: it
\* starts where the first effect instance has finished its setup, and the
\* detector is left as it is.  SpecDetector, further down, starts from the
\* mounted component and runs the detector's setup and cleanup.
\* ------------------------------------------------------------------------
Init ==
    /\ mode = "FORMED"
    /\ twoHandsDetected = FALSE
    /\ handPosition = NoHandPosition
    /\ lastModeRef = "FORMED"
    /\ openFrames = 0
    /\ closedFrames = 0
    /\ gestureStatus = StatusWaiting
    /\ syncPending = FALSE
    /\ modeCalls = <<>>
    /\ twoHandsCalls = <<>>
    /\ handPosCalls = <<>>
    /\ lastOp = "init"
    /\ run = NoRun
    /\ toggleAge = -1
    /\ probe = <<>>
    /\ det = DetRunning
    /\ cam = CamMounted
    /\ photos = PhotosMounted

\* predictWebcam on a video that has data: one detector frame.
Frame(result) ==
    \E r \in {ProcessFrame(result, Refs)} : \E nr \in {RunAfter(r)} :
    /\ r.openFrames <= MaxCount
    /\ r.closedFrames <= MaxCount
    /\ nr.len <= MaxRun
    /\ openFrames' = r.openFrames
    /\ closedFrames' = r.closedFrames
    /\ lastModeRef' = r.lastModeRef
    /\ gestureStatus' = r.gestureStatus
    /\ modeCalls' = r.modeCalls
    /\ twoHandsCalls' = r.twoHandsCalls
    /\ mode' = ModeAfter(mode, r.modeCalls)
    /\ syncPending' = (syncPending \/ mode' # mode)
    /\ twoHandsDetected' = TwoHandsAfter(twoHandsDetected, r.twoHandsCalls)
    /\ handPosCalls' = HandPositionCalls(result)
    /\ handPosition' = HandPositionAfter(handPosition, handPosCalls')
    /\ lastOp' = "frame"
    /\ run' = nr
    /\ toggleAge' = IF toggleAge < 0 THEN toggleAge
                    ELSE Min(toggleAge + 1, MaxAge)
    /\ UNCHANGED <<probe, cam, photos>>

\* predictWebcam while videoWidth is 0: nothing but the next request.
IdleTick ==
    /\ modeCalls' = <<>>
    /\ twoHandsCalls' = <<>>
    /\ handPosCalls' = <<>>
    /\ lastOp' = "idle"
    /\ UNCHANGED <<mode, twoHandsDetected, handPosition, lastModeRef,
                   openFrames, closedFrames, gestureStatus, syncPending, run,
                   toggleAge, probe, cam, photos>>

PredictWebcam ==
    /\ \E videoWidth \in {0, 640} :
          IF videoWidth > 0
          THEN \E result \in Results : Frame(result)
          ELSE IdleTick
    /\ UNCHANGED det

\* The UI toggle.
ToggleMode ==
    /\ mode' = Toggled(mode)
    /\ syncPending' = TRUE
    /\ modeCalls' = <<>>
    /\ twoHandsCalls' = <<>>
    /\ handPosCalls' = <<>>
    /\ lastOp' = "toggle"
    /\ run' = [run EXCEPT !.toggled = TRUE]
    /\ toggleAge' = 0
    /\ UNCHANGED <<twoHandsDetected, handPosition, lastModeRef, openFrames,
                   closedFrames, gestureStatus, probe, det, cam,
                   photos>>

\* useEffect(() => { lastModeRef.current = currentMode }, [currentMode])
ModeSyncEffect ==
    /\ syncPending
    /\ lastModeRef' = mode
    /\ syncPending' = FALSE
    /\ modeCalls' = <<>>
    /\ twoHandsCalls' = <<>>
    /\ handPosCalls' = <<>>
    /\ lastOp' = "sync"
    /\ UNCHANGED <<mode, twoHandsDetected, handPosition, openFrames,
                   closedFrames, gestureStatus, run, toggleAge, probe, det,
                   cam, photos>>

Next ==
    \/ PredictWebcam
    \/ ToggleMode
    \/ ModeSyncEffect

Spec == Init /\ [][Next]_vars

\* ------------------------------------------------------------------------
\* Classification of single frames: no hand, every hand of the pose grid
\* and the frame-stream hands moved to another place of the image are each
\* given to one frame from the initial state.
\* ------------------------------------------------------------------------
Shifted(h, dx, dy) == [i \in DOMAIN h |-> Pt(h[i].x + dx, h[i].y + dy)]

\* Frames in which a second hand is detected too (numHands: 2).
TwoHandResults == {<<h, g>> : h \in FrameHands, g \in FrameHands}

ProbeResults ==
    {<<>>} \cup {<<h>> : h \in Hands}
    \cup {<<Shifted(h, 10, -20)>> : h \in FrameHands}
    \cup TwoHandResults

\* The counters and Mode the probed frame meets.
ProbeRefs ==
    { [openFrames |-> 0, closedFrames |-> 0, mode |-> "FORMED"],
      [openFrames |-> 4, closedFrames |-> 0, mode |-> "FORMED"],
      [openFrames |-> 0, closedFrames |-> 0, mode |-> "CHAOS"],
      [openFrames |-> 0, closedFrames |-> 5, mode |-> "CHAOS"] }

InitClassify ==
    /\ \E s \in ProbeRefs :
         /\ mode = s.mode
         /\ lastModeRef = s.mode
         /\ openFrames = s.openFrames
         /\ closedFrames = s.closedFrames
    /\ twoHandsDetected = FALSE
    /\ handPosition = NoHandPosition
    /\ gestureStatus = StatusWaiting
    /\ syncPending = FALSE
    /\ modeCalls = <<>>
    /\ twoHandsCalls = <<>>
    /\ handPosCalls = <<>>
    /\ lastOp = "init"
    /\ run = NoRun
    /\ toggleAge = -1
    /\ probe \in ProbeResults
    /\ det = DetRunning
    /\ cam = CamMounted
    /\ photos = PhotosMounted

ClassifyFrame ==
    /\ lastOp = "init"
    /\ Frame(probe)
    /\ UNCHANGED det

NextClassify == ClassifyFrame

SpecClassify == InitClassify /\ [][NextClassify]_vars

\* ------------------------------------------------------------------------
\* The detector's life: permission popup, effect runs and cleanups, the
\* asynchronous setup of each effect instance, "loadeddata" events and
\* animation frames.  While a "loadeddata" event is calling its listeners
\* nothing else runs.
\* ------------------------------------------------------------------------
\* The camera sees no hand here: what frames with hands do is in Spec.
LifeResults == {<<>>}

\* A step that processes no frame and leaves the gesture machine alone.
Quiet(op) ==
    /\ modeCalls' = <<>>
    /\ twoHandsCalls' = <<>>
    /\ handPosCalls' = <<>>
    /\ lastOp' = op
    /\ UNCHANGED <<mode, twoHandsDetected, handPosition, lastModeRef,
                   openFrames, closedFrames, syncPending, run, toggleAge,
                   probe, cam, photos>>

InitDetector ==
    /\ mode = "FORMED"
    /\ twoHandsDetected = FALSE
    /\ handPosition = NoHandPosition
    /\ lastModeRef = "FORMED"
    /\ openFrames = 0
    /\ closedFrames = 0
    /\ gestureStatus = StatusInitializing
    /\ syncPending = FALSE
    /\ modeCalls = <<>>
    /\ twoHandsCalls = <<>>
    /\ handPosCalls = <<>>
    /\ lastOp = "init"
    /\ run = NoRun
    /\ toggleAge = -1
    /\ probe = <<>>
    /\ det = DetInit
    /\ cam = CamMounted
    /\ photos = PhotosMounted

\* The button of the permission popup.
RequestCameraPermission ==
    /\ det.dispatch = <<>>
    /\ det.showPermissionPopup
    /\ det' = [det EXCEPT !.showPermissionPopup = FALSE, !.effectDue = TRUE,
                          !.tickOf = 0]
    /\ Quiet("detector")
    /\ UNCHANGED gestureStatus

\* App renders again: handleHandPosition and handleTwoHandsDetected are new
\* functions, so two dependencies of the effect have changed.
AppRender ==
    /\ det.dispatch = <<>>
    /\ ~det.effectDue
    /\ det' = [det EXCEPT !.effectDue = TRUE, !.tickOf = 0]
    /\ Quiet("detector")
    /\ UNCHANGED gestureStatus

\* EffectRun without the guard on showPermissionPopup.
EffectRunUnguarded ==
    /\ det.dispatch = <<>>
    /\ det.effectDue
    /\ \E d \in {IF det.current # 0 THEN Cleanup(det) ELSE det} :
         /\ d.effectCount < MaxEffects
         /\ det' = [d EXCEPT !.effectDue = FALSE,
                             !.effectCount = @ + 1,
                             !.current = d.effectCount + 1,
                             !.setupPc[d.effectCount + 1] = "awaitVision",
                             !.tickOf = 0]
    /\ Quiet("detector")
    /\ UNCHANGED gestureStatus

\* React runs the effect again: the cleanup of the previous run, if it
\* returned one, then the body, which stops at the popup guard or calls
\* setupMediaPipe up to its first await.
EffectRun ==
    /\ det.dispatch = <<>>
    /\ det.effectDue
    /\ \E d \in {IF det.current # 0 THEN Cleanup(det) ELSE det} :
         IF d.showPermissionPopup
         THEN det' = [d EXCEPT !.effectDue = FALSE, !.current = 0,
                               !.tickOf = 0]
         ELSE /\ d.effectCount < MaxEffects
              /\ det' = [d EXCEPT !.effectDue = FALSE,
                                  !.effectCount = @ + 1,
                                  !.current = d.effectCount + 1,
                                  !.setupPc[d.effectCount + 1] = "awaitVision",
                                  !.tickOf = 0]
    /\ Quiet("detector")
    /\ UNCHANGED gestureStatus

\* await FilesetResolver.forVisionTasks(...) settles.
VisionSettled(i) ==
    /\ det.dispatch = <<>>
    /\ det.setupPc[i] = "awaitVision"
    /\ \E ok \in BOOLEAN :
         det' = [det EXCEPT !.setupPc[i] =
                                IF ok THEN "awaitLandmarker" ELSE "failed",
                            !.tickOf = 0]
    /\ Quiet("detector")
    /\ UNCHANGED gestureStatus

\* await HandLandmarker.createFromOptions(...) settles; on success the ref
\* is assigned and startWebcam runs up to await getUserMedia.
LandmarkerSettled(i) ==
    /\ det.dispatch = <<>>
    /\ det.setupPc[i] = "awaitLandmarker"
    /\ \E ok \in BOOLEAN :
         IF ok
         THEN \E getUserMedia \in BOOLEAN :
                det' = [det EXCEPT !.handLandmarkerRef = i,
                                   !.setupPc[i] =
                                       IF getUserMedia THEN "awaitStream"
                                       ELSE "noMediaDevices",
                                   !.tickOf = 0]
         ELSE det' = [det EXCEPT !.setupPc[i] = "failed", !.tickOf = 0]
    /\ Quiet("detector")
    /\ UNCHANGED gestureStatus

\* StreamSettled with the "loadeddata" listener added on failure as well.
StreamSettledListensAnyway(i) ==
    /\ det.dispatch = <<>>
    /\ det.setupPc[i] = "awaitStream"
    /\ \E ok \in BOOLEAN :
         IF ok
         THEN /\ det' = [det EXCEPT !.liveStreams = @ \cup {i},
                                    !.srcObject = i,
                                    !.listeners = Append(@, i),
                                    !.loadPending = TRUE,
                                    !.setupPc[i] = "listening",
                                    !.tickOf = 0]
              /\ gestureStatus' = StatusWaiting
         ELSE /\ det' = [det EXCEPT !.listeners = Append(@, i),
                                    !.setupPc[i] = "failed",
                                    !.tickOf = 0]
              /\ gestureStatus' = StatusDenied
    /\ Quiet("detector")

\* await navigator.mediaDevices.getUserMedia(...) settles.
StreamSettled(i) ==
    /\ det.dispatch = <<>>
    /\ det.setupPc[i] = "awaitStream"
    /\ \E ok \in BOOLEAN :
         IF ok
         THEN /\ det' = [det EXCEPT !.liveStreams = @ \cup {i},
                                    !.srcObject = i,
                                    !.listeners = Append(@, i),
                                    !.loadPending = TRUE,
                                    !.setupPc[i] = "listening",
                                    !.tickOf = 0]
              /\ gestureStatus' = StatusWaiting
         ELSE /\ det' = [det EXCEPT !.setupPc[i] = "failed", !.tickOf = 0]
              /\ gestureStatus' = StatusDenied
    /\ Quiet("detector")

\* The video has its first frame of the stream in srcObject: the event
\* starts calling the listeners.
LoadedData ==
    /\ det.dispatch = <<>>
    /\ det.loadPending
    /\ det' = [det EXCEPT !.loadPending = FALSE, !.dispatch = det.listeners,
                          !.tickOf = 0]
    /\ Quiet("detector")
    /\ UNCHANGED gestureStatus

\* predictWebcam of effect instance i, entered with the detector as d.
PredictWebcamOf(i, d) ==
    IF d.handLandmarkerRef = 0
    THEN /\ det' = NotRequested(d, i)
         /\ Quiet("return")
         /\ UNCHANGED gestureStatus
    ELSE \E videoWidth \in {0, 640} :
           IF videoWidth > 0
           THEN \E outcome \in {"landmarks", "exception"} :
                  IF outcome = "exception"
                  THEN /\ det' = NotRequested(d, i)
                       /\ Quiet("threw")
                       /\ UNCHANGED gestureStatus
                  ELSE /\ det' = Requested(d, i)
                       /\ \E result \in LifeResults : Frame(result)
           ELSE /\ det' = Requested(d, i)
                /\ IdleTick

\* The next "loadeddata" listener is called: it calls predictWebcam.
ListenerCall ==
    /\ det.dispatch # <<>>
    /\ PredictWebcamOf(Head(det.dispatch),
                       [det EXCEPT !.dispatch = Tail(@)])

\* The browser runs a requested predictWebcam callback of instance i.
AnimationFrame(i) ==
    /\ det.dispatch = <<>>
    /\ det.pending[i] > 0
    /\ PredictWebcamOf(i, Taken(det, i))

NextDetector ==
    \/ RequestCameraPermission
    \/ AppRender
    \/ EffectRun
    \/ \E i \in Effects : VisionSettled(i)
    \/ \E i \in Effects : LandmarkerSettled(i)
    \/ \E i \in Effects : StreamSettled(i)
    \/ LoadedData
    \/ ListenerCall
    \/ \E i \in Effects : AnimationFrame(i)

SpecDetector == InitDetector /\ [][NextDetector]_vars

\* ------------------------------------------------------------------------
\* The camera mapper on render ticks.  The orbit the ticks start from is
\* any the user can have dragged the camera to; Mode and the hand are the
\* props of the last App render, which the UI toggle and a frame without a
\* hand change between ticks.
\* ------------------------------------------------------------------------
CameraHands ==
    {NoHandPosition}
    \cup {[x |-> x, y |-> y, detected |-> TRUE] :
             x \in {0, 10, 50, 100}, y \in {0, 50, 100}}

CameraOrbits ==
    {[CamMounted EXCEPT !.azimuth = a, !.polar = p, !.distance = d] :
        a \in {-31415, -30000, 0, 23500, 30000, PI},
        p \in {minPolarAngle, 12700, 13734, maxPolarAngle},
        d \in {minDistance, 25400, 27500, maxDistance}}

InitCamera ==
    /\ mode \in TreeMode
    /\ lastModeRef = mode
    /\ twoHandsDetected = FALSE
    /\ handPosition \in CameraHands
    /\ openFrames = 0
    /\ closedFrames = 0
    /\ gestureStatus = StatusWaiting
    /\ syncPending = FALSE
    /\ modeCalls = <<>>
    /\ twoHandsCalls = <<>>
    /\ handPosCalls = <<>>
    /\ lastOp = "init"
    /\ run = NoRun
    /\ toggleAge = -1
    /\ probe = <<>>
    /\ det = DetRunning
    /\ cam \in CameraOrbits
    /\ photos = PhotosMounted

\* The renderer calls the useFrame callback.
RenderTick ==
    /\ cam.frameCount < MaxTicks
    /\ cam' = UseFrame(cam, mode, handPosition)
    /\ modeCalls' = <<>>
    /\ twoHandsCalls' = <<>>
    /\ handPosCalls' = <<>>
    /\ lastOp' = "render"
    /\ UNCHANGED <<mode, twoHandsDetected, handPosition, lastModeRef,
                   openFrames, closedFrames, gestureStatus, syncPending, run,
                   toggleAge, probe, det, photos>>

NextCamera == RenderTick

SpecCamera == InitCamera /\ [][NextCamera]_vars

\* ------------------------------------------------------------------------
\* The camera mapper on an endless sequence of render ticks: the renderer
\* calls the useFrame callback on every animation frame, for ever.  The
\* callback reads frameCount modulo 2 only, so that is what is kept of it.
\* ------------------------------------------------------------------------
RenderTickForEver ==
    /\ cam' = [UseFrame(cam, mode, handPosition) EXCEPT !.frameCount = @ % 2]
    /\ modeCalls' = <<>>
    /\ twoHandsCalls' = <<>>
    /\ handPosCalls' = <<>>
    /\ lastOp' = "render"
    /\ UNCHANGED <<mode, twoHandsDetected, handPosition, lastModeRef,
                   openFrames, closedFrames, gestureStatus, syncPending, run,
                   toggleAge, probe, det, photos>>

NextCameraLive == RenderTickForEver

SpecCameraLive ==
    InitCamera /\ [][NextCameraLive]_vars /\ WF_vars(RenderTickForEver)

\* The last step was a call of the useFrame callback.
Rendered == lastOp = "render"

\* ------------------------------------------------------------------------
\* The photo list and the photo overlay.  App mounts with or without a
\* share parameter in the URL; the user uploads photos, the shared link
\* settles, the detector delivers frames without a hand or with a pinching
\* hand, and the renderer calls the useFrame callback of Polaroids.
\* ------------------------------------------------------------------------
UploadSizes == {1, 12}

\* data.images of a shared link: whatever the share holds.
ShareImages == {Batch(SharedPhoto, n) : n \in {0, 3, 21}}

PinchingHand ==
    MkHand(Pose("atIndexExtended", "extended", "extended", "extended",
                "extended"))

PhotoResults == {<<>>, <<PinchingHand>>}

InitPhotos ==
    /\ mode = "FORMED"
    /\ twoHandsDetected = FALSE
    /\ handPosition = NoHandPosition
    /\ lastModeRef = "FORMED"
    /\ openFrames = 0
    /\ closedFrames = 0
    /\ gestureStatus = StatusWaiting
    /\ syncPending = FALSE
    /\ modeCalls = <<>>
    /\ twoHandsCalls = <<>>
    /\ handPosCalls = <<>>
    /\ lastOp = "init"
    /\ run = NoRun
    /\ toggleAge = -1
    /\ probe = <<>>
    /\ det = DetRunning
    /\ cam = CamMounted
    /\ \E shareId \in {"none", "pending"} :
         photos = [PhotosMounted EXCEPT !.share = shareId]

\* A step of App that processes no detector frame.
PhotoStep(op) ==
    /\ modeCalls' = <<>>
    /\ twoHandsCalls' = <<>>
    /\ handPosCalls' = <<>>
    /\ lastOp' = op
    /\ UNCHANGED <<mode, twoHandsDetected, handPosition, lastModeRef,
                   openFrames, closedFrames, gestureStatus, syncPending, run,
                   toggleAge, probe, det, cam>>

\* The user uploads n photos.
UploadPhotos ==
    /\ photos.uploads < MaxUploads
    /\ \E n \in UploadSizes :
         photos' = [photos EXCEPT
                      !.uploadedPhotos =
                         handlePhotosUpload(@, Batch(photos.uploads + 1, n)),
                      !.uploads = @ + 1,
                      !.closestCalls = <<>>]
    /\ PhotoStep("upload")

\* loadSharedPhotos after its await: the API or localStorage gave the
\* images of the share, or there is no such share.
ShareSettled ==
    /\ photos.share = "pending"
    /\ \E found \in BOOLEAN :
         IF found
         THEN \E images \in ShareImages :
                photos' = [photos EXCEPT !.uploadedPhotos = images,
                                         !.share = "settled",
                                         !.closestCalls = <<>>]
         ELSE photos' = [photos EXCEPT !.share = "settled",
                                       !.closestCalls = <<>>]
    /\ PhotoStep("share")

\* The renderer calls the useFrame callback of Polaroids.
PolaroidsTick ==
    /\ \E closestIndex \in ClosestIndices(photos.uploadedPhotos) :
         \E calls \in {ClosestPhotoCalls(twoHandsDetected,
                                         photos.uploadedPhotos,
                                         closestIndex)} :
           photos' = [photos EXCEPT
                        !.closestCalls = calls,
                        !.closestPhoto = ClosestPhotoAfter(@, calls)]
    /\ PhotoStep("polaroids")

\* A detector frame.
PhotoFrame ==
    /\ \E result \in PhotoResults : Frame(result)
    /\ UNCHANGED det

NextPhotos ==
    \/ UploadPhotos
    \/ ShareSettled
    \/ PolaroidsTick
    \/ PhotoFrame

SpecPhotos == InitPhotos /\ [][NextPhotos]_vars

\* predictWebcam was the last step.
Ticked == lastOp \in {"frame", "idle", "threw", "return"}

TypeOK ==
    /\ mode \in TreeMode
    /\ lastModeRef \in TreeMode
    /\ twoHandsDetected \in BOOLEAN
    /\ openFrames \in 0..MaxCount
    /\ closedFrames \in 0..MaxCount
    /\ syncPending \in BOOLEAN

\* ------------------------------------------------------------------------
\* Properties
\* ------------------------------------------------------------------------
FrameDone == lastOp = "frame"

\* C1: Mode starts as FORMED; a frame changes Mode only from FORMED to CHAOS
\* on an OPEN frame or from CHAOS to FORMED on a CLOSED frame whose
\* closedFrames count exceeds the confidence threshold, and no other frame
\* category or counter value produces an onModeChange call.
C1_GestureTransitions ==
    /\ mode = "FORMED"
    /\ [][/\ mode' # mode => lastOp' \in {"frame", "toggle"}
          /\ lastOp' # "frame" => modeCalls' = <<>>
          /\ lastOp' = "frame" =>
               /\ mode' # mode =>
                    \/ /\ mode = "FORMED"
                       /\ mode' = "CHAOS"
                       /\ gestureStatus' = StatusOpen
                    \/ /\ mode = "CHAOS"
                       /\ mode' = "FORMED"
                       /\ gestureStatus' = StatusClosed
                       /\ closedFrames' > CONFIDENCE_THRESHOLD
               /\ modeCalls' \in {<<>>, <<"CHAOS">>, <<"FORMED">>}
               /\ modeCalls' = <<"CHAOS">> => gestureStatus' = StatusOpen
               /\ modeCalls' = <<"FORMED">> =>
                    /\ gestureStatus' = StatusClosed
                    /\ closedFrames' > CONFIDENCE_THRESHOLD]_vars

\* A debounced CLOSED frame has brought Mode back from a gesture-made CHAOS.
C1_Witness ==
    /\ FrameDone
    /\ toggleAge = -1
    /\ modeCalls = <<"FORMED">>
    /\ mode = "FORMED"
    /\ gestureStatus = StatusClosed

\* C2: whenever Mode is FORMED and a frame classifies as OPEN, Mode is CHAOS
\* after that frame, whatever the counters are.
C2_OpenFrameImmediate ==
    [][(mode = "FORMED" /\ lastOp' = "frame" /\ gestureStatus' = StatusOpen)
         => mode' = "CHAOS"]_vars

\* C3: a single CLOSED frame that follows an OPEN frame in Mode CHAOS leaves
\* Mode at CHAOS.
C3_SingleClosedKeepsChaos ==
    (/\ FrameDone
     /\ gestureStatus = StatusClosed
     /\ run.len = 1
     /\ run.prev = StatusOpen
     /\ run.mode0 = "CHAOS")
    => mode = "CHAOS"

C3_Witness ==
    /\ FrameDone
    /\ gestureStatus = StatusClosed
    /\ run.len = 1
    /\ run.prev = StatusOpen
    /\ run.mode0 = "CHAOS"
    /\ closedFrames = 1
    /\ mode = "CHAOS"

\* C4: from Mode CHAOS and closedFrames = 0, Mode is FORMED once the fifth
\* of five consecutive CLOSED frames has been processed.
C4_FiveClosedFrames ==
    (/\ FrameDone
     /\ gestureStatus = StatusClosed
     /\ run.len = 5
     /\ run.closed0 = 0
     /\ run.mode0 = "CHAOS"
     /\ ~run.toggled)
    => mode = "FORMED"

\* C5: in a run of consecutive OPEN frames without a toggle, exactly one
\* onModeChange(CHAOS) call is made if Mode was FORMED at the start of the
\* run and none if it was CHAOS, and Mode is CHAOS after each frame of it.
C5_OneEventPerOpenRun ==
    (/\ FrameDone
     /\ gestureStatus = StatusOpen
     /\ ~run.toggled)
    => /\ run.events = (IF run.mode0 = "FORMED" THEN 1 ELSE 0)
       /\ mode = "CHAOS"

\* C6: a NONE frame takes one off each counter, not below 0, so that three
\* NONE frames from openFrames = 4 leave openFrames = 1 and a PINCH frame
\* after them gives openFrames = 2.
C6_NoneDecays ==
    /\ [][(lastOp' = "frame" /\ gestureStatus' = StatusNone)
            => /\ openFrames' = Max(0, openFrames - 1)
               /\ closedFrames' = Max(0, closedFrames - 1)]_vars
    /\ []((gestureStatus = StatusNone /\ run.len = 3 /\ run.open0 = 4)
            => openFrames = 1)
    /\ []((/\ FrameDone
           /\ gestureStatus = StatusPinch
           /\ run.len = 1
           /\ run.prev = StatusNone
           /\ run.open0 = 1)
            => openFrames = 2)

\* Three NONE frames have been processed after openFrames was 4.
C6_Witness ==
    /\ FrameDone
    /\ gestureStatus = StatusNone
    /\ run.len = 3
    /\ run.open0 = 4
    /\ openFrames = 1

\* C7: when the last toggle has set Mode to CHAOS, the first frame after it,
\* if CLOSED, leaves Mode at CHAOS.
C7_ClosedAfterToggle ==
    [][(/\ toggleAge = 0
        /\ mode = "CHAOS"
        /\ lastOp' = "frame"
        /\ gestureStatus' = StatusClosed)
         => mode' = "CHAOS"]_vars

\* C8: once a toggle has been applied (its mode-sync effect has run) and no
\* frame has been processed since, both counters are 0.
C8_ToggleResetsCounters ==
    (toggleAge = 0 /\ ~syncPending)
    => (openFrames = 0 /\ closedFrames = 0)

\* C9: a PINCH frame adds one to openFrames and sets closedFrames to 0, and
\* calls onTwoHandsDetected(true) on every such frame that leaves openFrames
\* above the confidence threshold.
C9_PinchFrame ==
    [][(lastOp' = "frame" /\ gestureStatus' = StatusPinch)
         => /\ openFrames' = openFrames + 1
            /\ closedFrames' = 0
            /\ openFrames' > CONFIDENCE_THRESHOLD
                 => (twoHandsCalls' = <<TRUE>> /\ twoHandsDetected')]_vars

\* The pinch signal has been sent again on a second frame above threshold.
C9_Witness ==
    /\ FrameDone
    /\ gestureStatus = StatusPinch
    /\ openFrames = CONFIDENCE_THRESHOLD + 2
    /\ twoHandsCalls = <<TRUE>>

\* C10: the branch a hand takes is PINCH if the pinch condition holds,
\* whatever extendedFingers is; else OPEN if extendedFingers >= 4; else
\* CLOSED if extendedFingers <= 1; else AMBIGUOUS; exactly one of the four.
C10_Precedence ==
    (FrameDone /\ Len(probe) > 0)
    => LET h == probe[1] IN
       /\ gestureStatus \in {StatusPinch, StatusOpen, StatusClosed,
                             StatusAmbiguous}
       /\ IsPinching(h) => gestureStatus = StatusPinch
       /\ (~IsPinching(h) /\ ExtendedFingers(h) >= 4)
            => gestureStatus = StatusOpen
       /\ (~IsPinching(h) /\ ExtendedFingers(h) <= 1)
            => gestureStatus = StatusClosed
       /\ (~IsPinching(h) /\ ExtendedFingers(h) \in {2, 3})
            => gestureStatus = StatusAmbiguous

\* A pinching hand with at least four extended fingers has been classified.
C10_Witness ==
    /\ FrameDone
    /\ Len(probe) > 0
    /\ IsPinching(probe[1])
    /\ ExtendedFingers(probe[1]) >= 4
    /\ gestureStatus = StatusPinch

\* C11: every processed frame, whatever its category and whatever the
\* counters, calls onTwoHandsDetected exactly once.
C11_SignalEveryFrame ==
    FrameDone => Len(twoHandsCalls) = 1

\* C12: on a frame without a hand the hand-position consumer is given
\* exactly (0.5, 0.5, false) and the pinch consumer false; on a frame with a
\* hand the hand-position consumer is given (palmCenterX, palmCenterY, true),
\* the mean of landmarks 0, 5, 9, 13 and 17, exactly once.
C12_HandPositionCalls ==
    FrameDone =>
      IF Len(probe) = 0
      THEN /\ handPosCalls = <<[x |-> 50, y |-> 50, detected |-> FALSE]>>
           /\ twoHandsCalls = <<FALSE>>
           /\ handPosition = [x |-> 50, y |-> 50, detected |-> FALSE]
      ELSE LET h == probe[1] IN
           /\ Len(handPosCalls) = 1
           /\ handPosCalls[1].detected
           /\ 5 * handPosCalls[1].x
                = h[0].x + h[5].x + h[9].x + h[13].x + h[17].x
           /\ 5 * handPosCalls[1].y
                = h[0].y + h[5].y + h[9].y + h[13].y + h[17].y
           /\ handPosition = handPosCalls[1]

\* A hand away from the centre of the image has been reported.
C12_Witness ==
    /\ FrameDone
    /\ Len(probe) > 0
    /\ handPosCalls = <<[x |-> 63, y |-> 46, detected |-> TRUE]>>
    /\ handPosition.detected

\* C13: a PINCH, AMBIGUOUS or NONE frame never changes Mode and makes no
\* onModeChange call, whatever the counters are: Mode is written only by an
\* OPEN frame, by a CLOSED frame that leaves closedFrames above the
\* confidence threshold, or by the toggle.
C13_ModeWriters ==
    [][/\ (/\ lastOp' = "frame"
           /\ gestureStatus' \in {StatusPinch, StatusAmbiguous, StatusNone})
          => (mode' = mode /\ modeCalls' = <<>>)
       /\ mode' # mode =>
            \/ lastOp' = "toggle"
            \/ lastOp' = "frame" /\ gestureStatus' = StatusOpen
            \/ /\ lastOp' = "frame"
               /\ gestureStatus' = StatusClosed
               /\ closedFrames' > CONFIDENCE_THRESHOLD]_vars

\* A pinch held beyond the confidence threshold has left Mode at FORMED.
C13_Witness ==
    /\ FrameDone
    /\ gestureStatus = StatusPinch
    /\ openFrames > CONFIDENCE_THRESHOLD
    /\ mode = "FORMED"
    /\ lastModeRef = "FORMED"
    /\ modeCalls = <<>>

\* C14: in every reachable state at least one of openFrames and closedFrames
\* is 0; the two counters are never both above the confidence threshold and
\* neither is ever negative.
C14_OneCounterZero ==
    /\ openFrames = 0 \/ closedFrames = 0
    /\ ~(openFrames > CONFIDENCE_THRESHOLD
         /\ closedFrames > CONFIDENCE_THRESHOLD)
    /\ openFrames >= 0
    /\ closedFrames >= 0

\* A PINCH frame has followed CLOSED frames that had brought closedFrames
\* above the confidence threshold.
C14_Witness ==
    /\ FrameDone
    /\ gestureStatus = StatusPinch
    /\ run.len = 1
    /\ run.closed0 > CONFIDENCE_THRESHOLD
    /\ openFrames = 1
    /\ closedFrames = 0

\* C15: an AMBIGUOUS frame sets both counters to 0 and calls
\* onTwoHandsDetected(false); the CLOSED frames after it count from 0 again,
\* so they move Mode to FORMED only once more than CONFIDENCE_THRESHOLD of
\* them have followed the AMBIGUOUS frame.
C15_AmbiguousResets ==
    /\ [][(lastOp' = "frame" /\ gestureStatus' = StatusAmbiguous)
            => /\ openFrames' = 0
               /\ closedFrames' = 0
               /\ twoHandsCalls' = <<FALSE>>
               /\ ~twoHandsDetected']_vars
    /\ []((/\ FrameDone
           /\ gestureStatus = StatusClosed
           /\ run.prev = StatusAmbiguous)
            => /\ closedFrames = run.len
               /\ modeCalls = <<"FORMED">>
                    => run.len > CONFIDENCE_THRESHOLD)

\* One AMBIGUOUS frame has interrupted CLOSED frames that had brought
\* closedFrames to the confidence threshold in Mode CHAOS.
C15_Witness ==
    /\ FrameDone
    /\ gestureStatus = StatusAmbiguous
    /\ run.len = 1
    /\ run.prev = StatusClosed
    /\ run.closed0 = CONFIDENCE_THRESHOLD
    /\ run.mode0 = "CHAOS"
    /\ closedFrames = 0
    /\ mode = "CHAOS"

\* C16 (as claimed): onModeChange(FORMED) is called only by the last frame of
\* a run of more than CONFIDENCE_THRESHOLD CLOSED frames that no frame of
\* another category, NONE included, interrupts.
C16_OnlyAfterFullRun ==
    (FrameDone /\ modeCalls = <<"FORMED">>)
    => (gestureStatus = StatusClosed /\ run.len > CONFIDENCE_THRESHOLD)

\* C16 (amended): onModeChange(FORMED) is called only by a CLOSED frame that
\* leaves closedFrames above CONFIDENCE_THRESHOLD.  The count restarts
\* after a PINCH, OPEN or AMBIGUOUS frame, so CLOSED frames that follow one
\* of those must number more than CONFIDENCE_THRESHOLD; a NONE frame only
\* takes one off, so CLOSED frames that follow NONE frames go on from the
\* count the NONE frames left.
C16_FormedAfterDebounce ==
    (FrameDone /\ modeCalls = <<"FORMED">>)
    => /\ gestureStatus = StatusClosed
       /\ closedFrames > CONFIDENCE_THRESHOLD
       /\ closedFrames = run.closed0 + run.len
       /\ run.prev # StatusNone => run.len > CONFIDENCE_THRESHOLD

\* Two CLOSED frames after a NONE frame have moved Mode to FORMED.
C16_Witness ==
    /\ FrameDone
    /\ modeCalls = <<"FORMED">>
    /\ mode = "FORMED"
    /\ run.prev = StatusNone
    /\ run.len = 2
    /\ run.closed0 = CONFIDENCE_THRESHOLD - 1

\* C17: once the cleanup of an effect instance has run, the MediaStream that
\* instance acquired with getUserMedia is not live, whether the cleanup ran
\* before, during or after the asynchronous setup.
C17_CleanupReleasesCamera ==
    \A i \in det.cleaned : i \notin det.liveStreams

\* C18: once the cleanup of an effect instance has run, no predictWebcam of
\* that instance runs again, also when the cleanup came while
\* setupMediaPipe or startWebcam was awaiting or before "loadeddata".
C18_NoCallbackAfterCleanup ==
    Ticked => det.tickOf \notin det.cleaned

\* C19: across effect runs, cleanups and "loadeddata" events, at most one
\* predictWebcam callback is pending at any time.
C19_OnePendingCallback ==
    PendingCallbacks(det) <= 1

\* C20: a predictWebcam in which detecting the frame throws still requests
\* the next animation frame: compared with the callbacks its instance had
\* pending before the step, the one it was run from is replaced by a new
\* one, and a call from the "loadeddata" listener adds one.
C20_FailureDiscarded ==
    [][lastOp' = "threw"
         => det'.pending[det'.tickOf]
              = det.pending[det'.tickOf]
                + (IF det.dispatch # <<>> THEN 1 ELSE 0)]_vars

\* C21: a frame whose detection result has no landmarks is treated as NONE:
\* detectGesture is not invoked (the status is "No hand detected" and the
\* hand-position consumer gets the no-hand value), each counter goes down by
\* one but not below 0, and Mode is unchanged with no onModeChange call.
C21_NoLandmarksIsNone ==
    [][(lastOp' = "frame" /\ Len(probe) = 0)
         => /\ gestureStatus' = StatusNone
            /\ openFrames' = (IF openFrames > 0 THEN openFrames - 1 ELSE 0)
            /\ closedFrames'
                 = (IF closedFrames > 0 THEN closedFrames - 1 ELSE 0)
            /\ mode' = mode
            /\ lastModeRef' = lastModeRef
            /\ modeCalls' = <<>>
            /\ handPosCalls' = <<[x |-> 50, y |-> 50, detected |-> FALSE]>>
            /\ twoHandsCalls' = <<FALSE>>]_vars

\* A frame without landmarks has met closedFrames = 5 in Mode CHAOS.
C21_Witness ==
    /\ FrameDone
    /\ Len(probe) = 0
    /\ gestureStatus = StatusNone
    /\ closedFrames = 4
    /\ mode = "CHAOS"

\* C22: predictWebcam runs only for an effect instance whose MediaPipe
\* setup and webcam access have both succeeded; as long as no instance has
\* got that far no predictWebcam has been called or requested, no frame has
\* been processed, the counters are as constructed and Mode is as it was.
C22_NoTickAfterFailedSetup ==
    /\ Ticked => det.setupPc[det.tickOf] = "listening"
    /\ (\A i \in Effects : det.setupPc[i] # "listening")
         => /\ ~Ticked
            /\ run.len = 0
            /\ det.listeners = <<>>
            /\ PendingCallbacks(det) = 0
            /\ det.animationFrameIdRef = NoCallback
            /\ openFrames = 0
            /\ closedFrames = 0
            /\ mode = "FORMED"
            /\ gestureStatus \in {StatusInitializing, StatusDenied}

\* The webcam access of the first effect instance has failed after its
\* landmarker was created, and the second instance has none yet.
C22_Witness ==
    /\ det.setupPc[1] = "failed"
    /\ det.handLandmarkerRef = 1
    /\ gestureStatus = StatusDenied
    /\ det.effectCount = 2
    /\ run.len = 0

\* C23: for every current azimuth in (-PI, PI] and every target azimuth of
\* a hand x in [0, 1], the wraparound-corrected difference the mapper
\* computes has magnitude at most PI and equals target - current modulo
\* 2 * PI, and the angle it then sets lies on the side of the current one
\* that the corrected difference points to.
C23_ShortWayRound ==
    [][(lastOp' = "render" /\ cam'.updated /\ handPosition.detected)
         => LET current == cam.azimuth
                target == cam'.targetAzimuth
                d == cam'.azimuthDiff
            IN  /\ current > -PI /\ current <= PI
                /\ handPosition.x \in 0..100
                /\ Abs(d) <= PI
                /\ d - (target - current) \in {0, 2 * PI, -(2 * PI)}
                /\ \A k \in DOMAIN cam'.newAzimuth :
                      /\ d > 0 => cam'.newAzimuth[k] > current
                      /\ d < 0 => cam'.newAzimuth[k] < current]_vars

\* From azimuth 3.0 the target -0.75 * PI of a hand at the left edge is
\* reached by turning up, through PI.
C23_Witness ==
    /\ Rendered
    /\ cam.updated
    /\ cam.targetAzimuth = -23562
    /\ cam.azimuthDiff = 9270
    /\ cam.newAzimuth = <<31390>>

\* C24: with the hand held at one position, every azimuth the mapper sets
\* brings the camera nearer to the target without passing it: the
\* difference that remains after the update has the sign of the difference
\* before it and a smaller magnitude.
C24_MonotoneApproach ==
    [][(lastOp' = "render" /\ cam'.newAzimuth # <<>>)
         => LET before == cam'.azimuthDiff
                after == azimuthDiff(targetAzimuth(handPosition.x),
                                     cam'.azimuth)
            IN  /\ handPosition' = handPosition
                /\ before > 0 => (0 < after /\ after < before)
                /\ before < 0 => (before < after /\ after < 0)
                /\ before # 0]_vars

\* Palm centre (0.1, 0.5), start azimuth 0: the tenth update has brought
\* the camera to -1.5135 rad, on its way to -0.6 * PI = -1.8849 rad.
C24_Witness ==
    /\ Rendered
    /\ handPosition = [x |-> 10, y |-> 50, detected |-> TRUE]
    /\ cam.frameCount = 20
    /\ cam.targetAzimuth = -18849
    /\ cam.azimuthDiff = -4369
    /\ cam.newAzimuth = <<-15135>>
    /\ cam.azimuth = -15135

\* C25: for every hand y in [0, 1] the target polar angle lies in
\* [minPolar, maxPolar], and from a current polar angle in that range the
\* angle the mapper sets, current + 0.1 * diff, lies in it too.
C25_PolarInRange ==
    [][(lastOp' = "render" /\ cam'.updated /\ handPosition.detected)
         => /\ handPosition.y \in 0..100
            /\ cam'.targetPolar >= minPolar
            /\ cam'.targetPolar <= maxPolar
            /\ cam.polar >= minPolar
            /\ cam.polar <= maxPolar
            /\ \A k \in DOMAIN cam'.newPolar :
                  /\ cam'.newPolar[k] >= minPolar
                  /\ cam'.newPolar[k] <= maxPolar
                  /\ cam'.polar = cam'.newPolar[k]]_vars

\* A hand at the top edge pulls the camera from minPolar toward maxPolar.
C25_Witness ==
    /\ Rendered
    /\ handPosition.y = 0
    /\ cam.targetPolar = maxPolar
    /\ cam.newPolar = <<minPolar + 959>>
    /\ cam.polar = minPolar + 959

\* C26: every distance the mapper steers toward or gives to the camera
\* lies within [minDistance, maxDistance] of the orbit controls, in both
\* modes, when the distance it starts from lies in that range.
C26_DistanceInRange ==
    (Rendered /\ cam.updated)
       => /\ cam.targetDistance >= minDistance
          /\ cam.targetDistance <= maxDistance
          /\ \A k \in DOMAIN cam.newDistance :
                /\ cam.newDistance[k] >= minDistance
                /\ cam.newDistance[k] <= maxDistance

\* C27: on a tick that updates the distance, the distance given to the
\* camera is current + (target - current) * 0.05, with target 35 when Mode
\* is CHAOS and 25 otherwise.
C27_DistanceStep ==
    [][(lastOp' = "render" /\ cam'.newDistance # <<>>)
         => /\ cam'.targetDistance = (IF mode = "CHAOS" THEN 35000 ELSE 25000)
            /\ cam'.newDistance =
                 <<cam.distance
                     + Mul(cam'.targetDistance - cam.distance, 5, 100)>>]_vars

\* C28: every call of the useFrame callback runs the mapper's update: it
\* performs the distance step and, when a hand is detected, the azimuth
\* and polar steps.
C28_UpdateOnEveryTick ==
    [][lastOp' = "render"
         => /\ cam'.frameCount = cam.frameCount + 1
            /\ cam'.updated
            /\ cam'.newDistance = newDistance(mode, cam.distance)
            /\ cam'.newAzimuth = newAzimuth(handPosition, cam.azimuth)
            /\ cam'.newPolar = newPolar(handPosition, cam.polar)]_vars

\* C29: on a render tick where handPosition.detected is false the mapper
\* sets neither the azimuth nor the polar angle: both keep their values
\* and are not pulled toward any default.
C29_NoHandNoRotation ==
    [][(lastOp' = "render" /\ ~handPosition.detected)
         => /\ cam'.newAzimuth = <<>>
            /\ cam'.newPolar = <<>>
            /\ cam'.azimuth = cam.azimuth
            /\ cam'.polar = cam.polar]_vars

\* Without a hand the camera stays at azimuth 3.0 and at maxPolar while an
\* update moves its distance.
C29_Witness ==
    /\ Rendered
    /\ cam.updated
    /\ ~handPosition.detected
    /\ cam.newDistance # <<>>
    /\ cam.azimuth = 30000
    /\ cam.polar = maxPolarAngle
    /\ cam.frameCount = 4

\* C30: the mapper sets the azimuth only when the magnitude of the azimuth
\* difference exceeds 0.01, the polar angle only when the magnitude of the
\* polar difference exceeds 0.01 and the distance only when the magnitude
\* of the distance difference exceeds 0.5; a parameter it does not set is
\* unchanged on that tick.
C30_DeadZone ==
    [][lastOp' = "render"
         => /\ cam'.newAzimuth # <<>> => Abs(cam'.azimuthDiff) > AngleDeadZone
            /\ cam'.newPolar # <<>>
                 => Abs(cam'.targetPolar - cam.polar) > AngleDeadZone
            /\ cam'.newDistance # <<>>
                 => Abs(cam'.targetDistance - cam.distance) > DistanceDeadZone
            /\ cam'.newAzimuth = <<>> => cam'.azimuth = cam.azimuth
            /\ cam'.newPolar = <<>> => cam'.polar = cam.polar
            /\ cam'.newDistance = <<>> => cam'.distance = cam.distance]_vars

\* An update with a detected hand that finds all three differences inside
\* their dead zones (0.0062 rad, 0.0047 rad, 0.4) and sets nothing.
C30_Witness ==
    /\ Rendered
    /\ cam.updated
    /\ mode = "FORMED"
    /\ handPosition = [x |-> 100, y |-> 50, detected |-> TRUE]
    /\ cam.azimuthDiff = 62
    /\ cam.targetPolar = 12653
    /\ cam.polar = 12700
    /\ cam.distance = 25400
    /\ cam.newAzimuth = <<>>
    /\ cam.newPolar = <<>>
    /\ cam.newDistance = <<>>

\* C31: Mode, both counters, the hand position and the pinch signal depend
\* on the first detected hand only: a frame in which a second hand is
\* detected leaves exactly what the frame with the first hand alone leaves,
\* whatever the second hand is, so two runs with the same primary hands
\* stay equal frame by frame.
C31_SecondHandIgnored ==
    [][(lastOp' = "frame" /\ Len(probe) = 2)
         => LET alone == ProcessFrame(<<probe[1]>>, Refs)
            IN  /\ openFrames' = alone.openFrames
                /\ closedFrames' = alone.closedFrames
                /\ lastModeRef' = alone.lastModeRef
                /\ gestureStatus' = alone.gestureStatus
                /\ modeCalls' = alone.modeCalls
                /\ mode' = ModeAfter(mode, alone.modeCalls)
                /\ twoHandsCalls' = alone.twoHandsCalls
                /\ twoHandsDetected'
                     = TwoHandsAfter(twoHandsDetected, alone.twoHandsCalls)
                /\ handPosCalls' = HandPositionCalls(<<probe[1]>>)
                /\ handPosition'
                     = HandPositionAfter(handPosition, handPosCalls')]_vars

\* A closed first hand restores FORMED while the second hand is open.
C31_Witness ==
    /\ FrameDone
    /\ Len(probe) = 2
    /\ probe[1] = MkHand(Pose("curled", "curled", "curled", "curled",
                              "curled"))
    /\ probe[2] = MkHand(Pose("out", "extended", "extended", "extended",
                              "extended"))
    /\ gestureStatus = StatusClosed
    /\ modeCalls = <<"FORMED">>
    /\ mode = "FORMED"

\* C32: the list of uploaded photos never holds more than 20 entries,
\* after any sequence of photo uploads and the load of a shared link.
C32_AtMostTwentyPhotos == Len(photos.uploadedPhotos) <= PhotoLimit

\* C33: whenever the last value given to the pinch consumer is true,
\* openFrames is greater than CONFIDENCE_THRESHOLD; every OPEN, CLOSED,
\* AMBIGUOUS or NONE frame gives it false, so the pinch signal is never
\* true after a frame that is not a PINCH frame.
C33_PinchSignalNeedsHeldPinch ==
    /\ twoHandsDetected => openFrames > CONFIDENCE_THRESHOLD
    /\ twoHandsDetected => gestureStatus = StatusPinch
    /\ (FrameDone /\ gestureStatus # StatusPinch)
          => /\ gestureStatus \in {StatusOpen, StatusClosed, StatusAmbiguous,
                                   StatusNone}
             /\ twoHandsCalls = <<FALSE>>
             /\ ~twoHandsDetected

\* The pinch signal is on after the sixth PINCH frame in a row and has
\* stayed on through a toggle of Mode.
C33_Witness ==
    /\ twoHandsDetected
    /\ openFrames = CONFIDENCE_THRESHOLD + 1
    /\ lastOp = "toggle"
    /\ mode = "CHAOS"

\* C34: lastModeRef equals Mode whenever no mode-sync effect is pending,
\* after any interleaving of gesture frames and toggles; so a frame
\* processed in such a state never calls onModeChange with the current
\* Mode.
C34_RefInSync ==
    /\ ~syncPending => lastModeRef = mode
    /\ [][/\ ~syncPending' => lastModeRef' = mode'
          /\ (~syncPending /\ lastOp' = "frame")
                => \A k \in DOMAIN modeCalls' : modeCalls'[k] # mode]_vars

\* A toggle to CHAOS, closed frames that restored FORMED, and the effect
\* has run.
C34_Witness ==
    /\ lastOp = "sync"
    /\ ~syncPending
    /\ mode = "FORMED"
    /\ lastModeRef = "FORMED"
    /\ closedFrames = CONFIDENCE_THRESHOLD + 1
    /\ toggleAge = MaxAge

\* C35: while showPermissionPopup is true nothing of the detector has run:
\* no setupMediaPipe, no getUserMedia and so no camera stream, no
\* predictWebcam, no pending callback, and counters, status and Mode are
\* as constructed.
C35_NothingBeforePermission ==
    det.showPermissionPopup
       => /\ det.effectCount = 0
          /\ det.current = 0
          /\ \A i \in Effects : det.setupPc[i] = "none"
          /\ det.handLandmarkerRef = 0
          /\ det.liveStreams = {}
          /\ det.srcObject = 0
          /\ det.listeners = <<>>
          /\ PendingCallbacks(det) = 0
          /\ ~Ticked
          /\ run.len = 0
          /\ openFrames = 0
          /\ closedFrames = 0
          /\ gestureStatus = StatusInitializing
          /\ mode = "FORMED"

\* App has rendered again and the effect has run with the popup still
\* showing: it returned at its guard.
C35_Witness ==
    /\ det.showPermissionPopup
    /\ lastOp = "detector"
    /\ ~det.effectDue
    /\ det.effectCount = 0

\* C36: once permission is granted the detector is set up once: after a
\* frame has given a hand position and a pinch signal to App, which
\* renders again, no step cleans the effect up and none starts a new
\* setupMediaPipe.
C36_SetUpOnce ==
    [][run.len > 0 => /\ det'.effectCount = det.effectCount
                      /\ det'.cleaned = det.cleaned
                      /\ det'.current = det.current]_vars

\* C37: detectForVideo is never called on a hand landmarker that the
\* effect cleanup has closed, in any interleaving of cleanup, new setup,
\* "loadeddata" events and pending animation-frame callbacks.
C37_NoDetectOnClosedLandmarker ==
    lastOp \in {"frame", "threw"}
       => det.handLandmarkerRef \notin det.closedLandmarkers

\* C38: while Mode stays constant the mapper eventually stops rewriting
\* the camera distance: after finitely many render ticks the distance is
\* within the 0.5 dead zone of the mode's target, 35 in CHAOS and 25 in
\* FORMED, and stays there, and no tick gives the camera a distance any
\* more.
C38_DistanceSettles ==
    <>[](/\ Abs((IF mode = "CHAOS" THEN 35000 ELSE 25000) - cam.distance)
              <= DistanceDeadZone
         /\ cam.newDistance = <<>>)

\* C39: the photo overlay follows the pinch signal: a render tick on which
\* the pinch signal is false or no photo is uploaded sets the closest
\* photo to null; a tick sets it to a photo only when the pinch signal is
\* true and a photo exists, and then to one of the uploaded photos; and
\* nothing but a render tick sets it.
C39_OverlayFollowsPinch ==
    [][/\ lastOp' = "polaroids"
            => /\ (~twoHandsDetected \/ Len(photos.uploadedPhotos) = 0)
                     => /\ photos'.closestCalls = <<NullPhoto>>
                        /\ photos'.closestPhoto = NullPhoto
               /\ photos'.closestPhoto # NullPhoto
                     => /\ twoHandsDetected
                        /\ \E k \in DOMAIN photos.uploadedPhotos :
                             photos.uploadedPhotos[k] = photos'.closestPhoto
                        /\ photos'.closestCalls = <<photos'.closestPhoto>>
       /\ lastOp' # "polaroids"
            => photos'.closestPhoto = photos.closestPhoto]_vars

\* A pinch held for six frames has ended with a frame without a hand, and
\* the next render tick has cleared the overlay although photos exist.
C39_Witness ==
    /\ lastOp = "polaroids"
    /\ gestureStatus = StatusNone
    /\ openFrames = CONFIDENCE_THRESHOLD
    /\ ~twoHandsDetected
    /\ Len(photos.uploadedPhotos) = PhotoLimit
    /\ photos.closestCalls = <<NullPhoto>>
    /\ photos.closestPhoto = NullPhoto

====
